---- MODULE Spec2Model ----
(***************************************************************************)
(* RESTClient (rest_client.py): a client object holding base_url, auth,    *)
(* timeout and verify, with five methods get/post/put/delete/patch.  Each  *)
(* method builds url = base_url + endpoint, calls the matching function of *)
(* the HTTP transport (requests.get, requests.post, ...) once and returns  *)
(* response.json().                                                        *)
(*                                                                         *)
(* One action models one whole method invocation.  The transport is an     *)
(* external collaborator: the variable `transport` holds what it does when *)
(* called (it raises a transport error, or returns a response with a       *)
(* status code and a body), and MockTransport changes that, as the tests   *)
(* do before each call.  The variables `sent` and `decodes` record what    *)
(* the last invocation did to the transport and to the response; they are  *)
(* observations of the collaborator, not attributes of the client.         *)
(***************************************************************************)
EXTENDS Integers, Sequences, FiniteSets, TLC

VARIABLES
    self,       \* the client's attributes (instance __dict__)
    given,      \* the arguments __init__ was called with
    transport,  \* what the transport does when it is called
    call,       \* the last invocation: method, endpoint, keyword arguments
    sent,       \* requests handed to the transport by that invocation
    decodes,    \* number of response.json() calls made by that invocation
    outcome     \* how that invocation ended: a returned value or a raised error

vars == <<self, given, transport, call, sent, decodes, outcome>>

----------------------------------------------------------------------------
(* Values *)

MaxLen == 1

Chars == {"a", "/"}

\* Strings are sequences of characters, so that + is real concatenation.
Strings == UNION {[1..n -> Chars] : n \in 0..MaxLen}

\* Python's None, and a value that is present.
None == <<>>
Some(x) == <<x>>

Auths == {None, Some(<<"user", "secret">>)}
Timeouts == {None, Some(5)}
Verifies == BOOLEAN

\* A caller's payload (a dict) for params, data or json.
Payloads == {Some([title |-> "Test"])}

Methods == {"get", "post", "put", "delete", "patch"}

\* Raw response bodies, and what response.json() makes of them.
Bodies == {"", "<html>", "{}", "{\"id\": 101}", "{\"id\": 1, \"title\": \"Test\"}"}
Statuses == {200, 404}
TransportErrors == {"ConnectionError", "Timeout"}

EmptyObject == [k \in {} |-> 0]

Failure(e) == [ok |-> FALSE, error |-> e]
Response(s, b) == [ok |-> TRUE, status_code |-> s, body |-> b]

Transports ==
    {Failure(e) : e \in TransportErrors} \cup
    {Response(s, b) : s \in Statuses, b \in Bodies}

Return(v) == [kind |-> "return", value |-> v]
Raise(e) == [kind |-> "raise", error |-> e]

NoCall == [method |-> "none", endpoint |-> <<>>, kwargs |-> <<>>]
NoOutcome == [kind |-> "none"]

----------------------------------------------------------------------------
(* The client *)

\* __init__: stores the four arguments as attributes, nothing else.
RESTClient(base_url, auth, timeout, verify) ==
    [base_url |-> base_url, auth |-> auth, timeout |-> timeout, verify |-> verify]

\* A join that keeps exactly one slash between the two parts.
Url_Joined(client, endpoint) ==
    LET b == client.base_url
        e == endpoint
        bs == Len(b) > 0 /\ b[Len(b)] = "/"
        es == Len(e) > 0 /\ e[1] = "/"
    IN  IF bs /\ es THEN b \o Tail(e)
        ELSE IF ~bs /\ ~es THEN b \o <<"/">> \o e
        ELSE b \o e

\* url = self.base_url + endpoint
Url(client, endpoint) == client.base_url \o endpoint

\* The keyword parameters each method declares besides endpoint.
Signature(method) ==
    CASE method = "get" -> {"params"}
      [] method = "post" -> {"data", "json"}
      [] method = "put" -> {"data"}
      [] method = "delete" -> {}
      [] method = "patch" -> {"data"}

\* The value a parameter is bound to: the caller's, or the default None.
Arg(kwargs, k) == IF k \in DOMAIN kwargs THEN kwargs[k] ELSE None

\* Settings that leave the timeout and the certificate check to the transport's
\* defaults.
Settings_Defaults(client) ==
    [auth |-> client.auth, timeout |-> None, verify |-> TRUE]

\* The keyword arguments every method forwards from the client.
Settings(client) ==
    [auth |-> client.auth, timeout |-> client.timeout, verify |-> client.verify]

\* The argument list of each requests.<verb>(...) call.
GetRequest(client, endpoint, kwargs) ==
    [verb |-> "GET", url |-> Url(client, endpoint),
     kw |-> Settings(client) @@ [params |-> Arg(kwargs, "params")]]

\* A post that sends data only when no json is given.
PostRequest_PrefersJson(client, endpoint, kwargs) ==
    [verb |-> "POST", url |-> Url(client, endpoint),
     kw |-> Settings(client) @@
            [data |-> IF Arg(kwargs, "json") = None THEN Arg(kwargs, "data") ELSE None,
             json |-> Arg(kwargs, "json")]]

PostRequest(client, endpoint, kwargs) ==
    [verb |-> "POST", url |-> Url(client, endpoint),
     kw |-> Settings(client) @@
            [data |-> Arg(kwargs, "data"), json |-> Arg(kwargs, "json")]]

PutRequest(client, endpoint, kwargs) ==
    [verb |-> "PUT", url |-> Url(client, endpoint),
     kw |-> Settings(client) @@ [data |-> Arg(kwargs, "data")]]

DeleteRequest(client, endpoint, kwargs) ==
    [verb |-> "DELETE", url |-> Url(client, endpoint),
     kw |-> Settings(client)]

PatchRequest(client, endpoint, kwargs) ==
    [verb |-> "PATCH", url |-> Url(client, endpoint),
     kw |-> Settings(client) @@ [data |-> Arg(kwargs, "data")]]

\* Whether a body is a JSON document, and the value it decodes to.
IsJson(body) == body \in {"{}", "{\"id\": 101}", "{\"id\": 1, \"title\": \"Test\"}"}

JsonDecode(body) ==
    CASE body = "{}" -> EmptyObject
      [] body = "{\"id\": 101}" -> [id |-> 101]
      [] body = "{\"id\": 1, \"title\": \"Test\"}" -> [id |-> 1, title |-> "Test"]

\* Variants of the return statement: one that wraps the decoded body in an
\* envelope, one that calls raise_for_status() first, one that swallows the
\* decoder's error.
json_Envelope(response) ==
    IF IsJson(response.body)
    THEN Return([status_code |-> response.status_code,
                 data |-> JsonDecode(response.body)])
    ELSE Raise("JSONDecodeError")

json_RaiseForStatus(response) ==
    IF response.status_code >= 400
    THEN Raise("HTTPError")
    ELSE IF IsJson(response.body)
         THEN Return(JsonDecode(response.body))
         ELSE Raise("JSONDecodeError")

json_Default(response) ==
    IF IsJson(response.body)
    THEN Return(JsonDecode(response.body))
    ELSE Return(EmptyObject)

\* return response.json(): the decoded body, or the decoder's error.
\* The status code is not read.
json(response) ==
    IF IsJson(response.body)
    THEN Return(JsonDecode(response.body))
    ELSE Raise("JSONDecodeError")

\* The body of a method: one transport call, then response.json().  An error
\* raised by the transport leaves the method before response.json() is reached.
Body(request) ==
    /\ sent' = <<request>>
    /\ IF transport.ok
       THEN /\ decodes' = 1
            /\ outcome' = json(transport)
       ELSE /\ decodes' = 0
            /\ outcome' = Raise(transport.error)

\* A keyword the method does not declare: Python raises TypeError when binding
\* the arguments, before the first line of the method runs.
Unbound ==
    /\ sent' = <<>>
    /\ decodes' = 0
    /\ outcome' = Raise("TypeError")

\* An invocation that also remembers the last request on the client.
Invoke_Remembers(method, endpoint, kwargs, request) ==
    /\ call' = [method |-> method, endpoint |-> endpoint, kwargs |-> kwargs]
    /\ IF DOMAIN kwargs \subseteq Signature(method)
       THEN Body(request) /\ self' = self @@ [last_request |-> request]
       ELSE Unbound /\ self' = self
    /\ UNCHANGED <<given, transport>>

Invoke(method, endpoint, kwargs, request) ==
    /\ call' = [method |-> method, endpoint |-> endpoint, kwargs |-> kwargs]
    /\ IF DOMAIN kwargs \subseteq Signature(method)
       THEN Body(request)
       ELSE Unbound
    /\ UNCHANGED <<self, given, transport>>

get(endpoint, kwargs) ==
    Invoke("get", endpoint, kwargs, GetRequest(self, endpoint, kwargs))

post(endpoint, kwargs) ==
    Invoke("post", endpoint, kwargs, PostRequest(self, endpoint, kwargs))

put(endpoint, kwargs) ==
    Invoke("put", endpoint, kwargs, PutRequest(self, endpoint, kwargs))

delete(endpoint, kwargs) ==
    Invoke("delete", endpoint, kwargs, DeleteRequest(self, endpoint, kwargs))

patch(endpoint, kwargs) ==
    Invoke("patch", endpoint, kwargs, PatchRequest(self, endpoint, kwargs))

----------------------------------------------------------------------------
(* Callers and the transport *)

\* The transport is set up to behave as tr (the tests' mock_response; a
\* server that answers differently).  A new observation starts.
MockTransport(tr) ==
    /\ transport' = tr
    /\ call' = NoCall
    /\ sent' = <<>>
    /\ decodes' = 0
    /\ outcome' = NoOutcome
    /\ UNCHANGED <<self, given>>

KeywordArgs(names) == UNION {[S -> Payloads] : S \in SUBSET names}

\* The calls made on the client: the keywords each method documents, and for
\* put and patch also the json keyword that test_put_request and
\* test_patch_request pass.
CallKeywords(method) ==
    CASE method = "get" -> {"params"}
      [] method = "post" -> {"data", "json"}
      [] method = "put" -> {"data", "json"}
      [] method = "delete" -> {}
      [] method = "patch" -> {"data", "json"}

Init ==
    /\ \E b \in Strings, a \in Auths, t \in Timeouts, v \in Verifies :
          /\ given = [base_url |-> b, auth |-> a, timeout |-> t, verify |-> v]
          /\ self = RESTClient(b, a, t, v)
    /\ transport \in Transports
    /\ call = NoCall
    /\ sent = <<>>
    /\ decodes = 0
    /\ outcome = NoOutcome

Next ==
    \/ \E tr \in Transports : MockTransport(tr)
    \/ \E endpoint \in Strings :
          \/ \E kwargs \in KeywordArgs(CallKeywords("get")) : get(endpoint, kwargs)
          \/ \E kwargs \in KeywordArgs(CallKeywords("post")) : post(endpoint, kwargs)
          \/ \E kwargs \in KeywordArgs(CallKeywords("put")) : put(endpoint, kwargs)
          \/ \E kwargs \in KeywordArgs(CallKeywords("delete")) : delete(endpoint, kwargs)
          \/ \E kwargs \in KeywordArgs(CallKeywords("patch")) : patch(endpoint, kwargs)

Spec == Init /\ [][Next]_vars

----------------------------------------------------------------------------
(* Properties *)

\* An invocation has been made; its method body ran; it got a response.
Called == call.method \in Methods
Ran == Called /\ Len(sent) > 0
Received == Ran /\ transport.ok

SettingNames == {"auth", "timeout", "verify"}

BodyId101 == "{\"id\": 101}"
BodyIdTitle == "{\"id\": 1, \"title\": \"Test\"}"

\* C1: every URL handed to the transport, by any of the five methods, is the
\* base_url given at construction followed by the endpoint of the call,
\* character for character: as long as both together, the first characters
\* those of base_url and the remaining ones those of endpoint.
UrlIsConcatenation ==
    \A i \in 1..Len(sent) :
        LET url == sent[i].url
            b == given.base_url
            e == call.endpoint
        IN  /\ Len(url) = Len(b) + Len(e)
            /\ \A j \in 1..Len(b) : url[j] = b[j]
            /\ \A j \in 1..Len(e) : url[Len(b) + j] = e[j]

\* A patch call with a base_url that does not end in a slash and an endpoint
\* that does not start with one: the URL has no slash between them.
UrlWitness ==
    /\ call.method = "patch"
    /\ given.base_url = <<"a">>
    /\ call.endpoint = <<"a">>
    /\ Len(sent) = 1
    /\ sent[1].url = <<"a", "a">>

\* C2: on every call, of any of the five methods, the auth, timeout and verify
\* passed to the transport are the ones given at construction.
SettingsForwarded ==
    \A i \in 1..Len(sent) :
        /\ SettingNames \subseteq DOMAIN sent[i].kw
        /\ sent[i].kw.auth = given.auth
        /\ sent[i].kw.timeout = given.timeout
        /\ sent[i].kw.verify = given.verify

\* A delete call on a client constructed with credentials, a timeout and
\* verify=False, all three of which reach the transport.
SettingsWitness ==
    /\ call.method = "delete"
    /\ Len(sent) = 1
    /\ given.auth = Some(<<"user", "secret">>)
    /\ given.timeout = Some(5)
    /\ given.verify = FALSE
    /\ sent[1].kw.auth = Some(<<"user", "secret">>)
    /\ sent[1].kw.timeout = Some(5)
    /\ sent[1].kw.verify = FALSE

\* C3: when the transport call succeeds and the body is a JSON document, get,
\* post and delete return the decoded value itself: {"id": 101} gives a result
\* with the single field id = 101, {} gives a result with no field, and
\* {"id": 1, "title": "Test"} gives exactly those two fields.
DecodedBodyReturned ==
    (Received /\ call.method \in {"get", "post", "delete"}) =>
        /\ transport.body = BodyId101 => outcome = Return([id |-> 101])
        /\ transport.body = "{}" =>
              outcome.kind = "return" /\ DOMAIN outcome.value = {}
        /\ transport.body = BodyIdTitle =>
              outcome = Return([id |-> 1, title |-> "Test"])

\* post(endpoint, json=...) against a transport answering {"id": 101} has
\* returned a value whose id is 101.
DecodedBodyWitness ==
    /\ call.method = "post"
    /\ DOMAIN call.kwargs = {"json"}
    /\ Received
    /\ transport.body = BodyId101
    /\ outcome.kind = "return"
    /\ outcome.value.id = 101

\* C4: put(endpoint, json=body) issues one PUT request and returns the decoded
\* body: against a transport answering {"id": 1, "title": "Test"} the result
\* has title "Test".
PutAcceptsJson ==
    (/\ call.method = "put"
     /\ DOMAIN call.kwargs = {"json"}
     /\ transport = Response(200, BodyIdTitle)) =>
        /\ Len(sent) = 1
        /\ sent[1].verb = "PUT"
        /\ outcome.kind = "return"
        /\ outcome.value.title = "Test"

\* C5: patch(endpoint, json=body) issues one PATCH request and returns the
\* decoded body: against a transport answering {"id": 1, "title": "Test"} the
\* result has title "Test".
PatchAcceptsJson ==
    (/\ call.method = "patch"
     /\ DOMAIN call.kwargs = {"json"}
     /\ transport = Response(200, BodyIdTitle)) =>
        /\ Len(sent) = 1
        /\ sent[1].verb = "PATCH"
        /\ outcome.kind = "return"
        /\ outcome.value.title = "Test"

\* C6: the status code plays no part: for every method and every status, a
\* response whose body is a JSON document makes the call return the decoded
\* body and raise nothing, and the outcome is the one a response with the same
\* body and any other status gives.
StatusIgnored ==
    Received =>
        /\ IsJson(transport.body) =>
              /\ outcome.kind = "return"
              /\ outcome.value = JsonDecode(transport.body)
        /\ ~IsJson(transport.body) => outcome.kind = "raise"
        /\ outcome.kind = "raise" => outcome.error = "JSONDecodeError"

\* A put call answered with status 404 and a JSON body has returned that body.
StatusWitness ==
    /\ call.method = "put"
    /\ Received
    /\ transport.status_code = 404
    /\ transport.body = BodyIdTitle
    /\ outcome = Return([id |-> 1, title |-> "Test"])

\* C7: for every method, a response whose body is empty or is not a JSON
\* document ends the call with the decoder's error, raised to the caller: no
\* value is returned and no other error takes its place.
DecodeErrorPropagates ==
    (Received /\ ~IsJson(transport.body)) =>
        /\ decodes = 1
        /\ outcome = Raise("JSONDecodeError")

\* A get call answered with an empty body has raised the decoder's error.
DecodeErrorWitness ==
    /\ call.method = "get"
    /\ Received
    /\ transport.body = ""
    /\ outcome.kind = "raise"
    /\ outcome.error = "JSONDecodeError"

\* C8: every invocation makes exactly one transport request; when the
\* transport fails its error reaches the caller and nothing is decoded, and
\* when it succeeds the response is decoded once.
OneRequestPerInvocation ==
    Called =>
        /\ Len(sent) = 1
        /\ ~transport.ok => (decodes = 0 /\ outcome = Raise(transport.error))
        /\ transport.ok => decodes = 1

\* C9: after any sequence of calls, returning or raising, the client's
\* attributes are exactly base_url, auth, timeout and verify, with the values
\* given at construction.
ConfigImmutable ==
    /\ DOMAIN self = {"base_url", "auth", "timeout", "verify"}
    /\ self.base_url = given.base_url
    /\ self.auth = given.auth
    /\ self.timeout = given.timeout
    /\ self.verify = given.verify

\* A post call that sent its request and then raised the transport's error,
\* on a client that still has its four attributes.
ConfigWitness ==
    /\ call.method = "post"
    /\ Len(sent) = 1
    /\ outcome = Raise("Timeout")
    /\ self = given
    /\ self.timeout = Some(5)

\* C10: each method passes the caller's payload to the transport unchanged
\* under its own verb: get passes params, post passes data and json (both when
\* both are given), put and patch pass data, delete passes nothing besides the
\* settings; an argument the caller omitted is passed as None.
PayloadForwarded ==
    \A i \in 1..Len(sent) :
        LET r == sent[i]
            given_or_none(k) == IF k \in DOMAIN call.kwargs THEN call.kwargs[k] ELSE None
        IN  /\ call.method = "get" =>
                /\ r.verb = "GET"
                /\ DOMAIN r.kw = SettingNames \cup {"params"}
                /\ r.kw.params = given_or_none("params")
            /\ call.method = "post" =>
                /\ r.verb = "POST"
                /\ DOMAIN r.kw = SettingNames \cup {"data", "json"}
                /\ r.kw.data = given_or_none("data")
                /\ r.kw.json = given_or_none("json")
            /\ call.method = "put" =>
                /\ r.verb = "PUT"
                /\ DOMAIN r.kw = SettingNames \cup {"data"}
                /\ r.kw.data = given_or_none("data")
            /\ call.method = "patch" =>
                /\ r.verb = "PATCH"
                /\ DOMAIN r.kw = SettingNames \cup {"data"}
                /\ r.kw.data = given_or_none("data")
            /\ call.method = "delete" =>
                /\ r.verb = "DELETE"
                /\ DOMAIN r.kw = SettingNames

\* A post call given both data and json, both of which reached the transport.
PayloadWitness ==
    /\ call.method = "post"
    /\ DOMAIN call.kwargs = {"data", "json"}
    /\ Len(sent) = 1
    /\ sent[1].kw.data = Some([title |-> "Test"])
    /\ sent[1].kw.json = Some([title |-> "Test"])

====
